---- MODULE Spec2Model ----
(***************************************************************************)
(* Model of the banking assistant's retrieval-and-grounding pipeline:      *)
(* BankingVectorStore (vector_store.py), BankingRetrievalChain             *)
(* (retrieval_chain.py), BankingLLMManager (llm_manager.py) and the        *)
(* BankingAssistant facade (banking_assistant.py).                         *)
(*                                                                         *)
(* Conventions.                                                            *)
(*  - A chunk (langchain Document) is a record: file_path and content_type *)
(*    are its metadata; keyword says whether its lower-cased page_content  *)
(*    contains one of the compliance keywords; topic is its embedding.     *)
(*  - The collection is a sequence of blocks [doc, n]: n consecutive rows  *)
(*    holding equal chunks, in storage order.  This keeps the default      *)
(*    limit of get_all_documents (1000) at its real value.                 *)
(*  - Similarity scores are in tenths (8 stands for 0.8).                  *)
(*  - The external capabilities (embedding model, language model, chroma   *)
(*    storage) either work or raise; each call's outcome is an input of    *)
(*    the action that makes the call.                                      *)
(***************************************************************************)
EXTENDS Integers, Sequences, FiniteSets, TLC

(* ---- bounds of the model ---- *)
MaxBlocks == 3
MaxRows == 1001
MaxResets == 2
MaxTurns == 4
MaxTokens == 3
MaxTables == 2
MaxPages == 2
MaxFiles == 3

(* ---- program constants ---- *)
DefaultK == 4
SearchDocumentsK == 5
GetAllLimit == 1000
HighThreshold == 8
MediumThreshold == 6
CHUNK_SIZE == 1000
CHUNK_OVERLAP == 200

(* ---- the documents the loaders can be given ---- *)
Topics == 0 .. 3

RateText == [file_path |-> "rates.txt", content_type |-> "text", keyword |-> FALSE, topic |-> 0]
RateTable == [file_path |-> "rates.txt", content_type |-> "table", keyword |-> FALSE, topic |-> 1]
PolicyText == [file_path |-> "policy.txt", content_type |-> "text", keyword |-> TRUE, topic |-> 2]
LedgerText == [file_path |-> "ledger.csv", content_type |-> "text", keyword |-> FALSE, topic |-> 3]

Block(doc, n) == [doc |-> doc, n |-> n]

\* what document_processor.load_document / load_documents_from_directory
\* hands to load_documents for each path; the csv loader yields one
\* document per row, here a ledger of 1000 rows
Paths == {"rates.txt", "policy.txt", "ledger.csv", "empty.txt", "missing.txt"}

PathExists(path) == path # "missing.txt"

Processed(path) ==
  CASE path = "rates.txt" -> <<Block(RateText, 1), Block(RateTable, 1)>>
    [] path = "policy.txt" -> <<Block(PolicyText, 1)>>
    [] path = "ledger.csv" -> <<Block(LedgerText, 1000)>>
    [] OTHER -> <<>>

Sources == {"rates.txt", "policy.txt", "ledger.csv", "missing.txt"}

\* the files a directory can hold: corrupt.pdf is a file whose loader raises,
\* logo.png has none of the supported extensions
DirFiles == {"rates.txt", "policy.txt", "empty.txt", "corrupt.pdf", "logo.png"}

Supported(file_path) == file_path # "logo.png"

LoadRaises(file_path) == file_path = "corrupt.pdf"

\* directory.rglob('*'): the files of a directory in the order they are listed
Directories ==
  {files \in UNION {[1 .. n -> DirFiles] : n \in 0 .. MaxFiles} :
     \A i, j \in 1 .. Len(files) : files[i] = files[j] => i = j}

\* load_documents_from_directory that lets the failure of a file end the batch
RECURSIVE load_documents_from_directory_aborts(_)
load_documents_from_directory_aborts(files) ==
  IF files = <<>> THEN [raised |-> FALSE, all_documents |-> <<>>, warnings |-> <<>>]
  ELSE LET rest == load_documents_from_directory_aborts(Tail(files))
       IN IF ~Supported(Head(files)) THEN rest
          ELSE IF LoadRaises(Head(files)) \/ rest.raised
            THEN [raised |-> TRUE, all_documents |-> <<>>, warnings |-> <<>>]
          ELSE [raised |-> FALSE, all_documents |-> Processed(Head(files)) \o rest.all_documents,
                warnings |-> rest.warnings]

\* load_documents_from_directory of an existing directory: the chunks of the
\* files that load, and the files a warning is printed for
RECURSIVE load_documents_from_directory(_)
load_documents_from_directory(files) ==
  IF files = <<>> THEN [raised |-> FALSE, all_documents |-> <<>>, warnings |-> <<>>]
  ELSE LET rest == load_documents_from_directory(Tail(files))
       IN IF ~Supported(Head(files)) THEN rest
          ELSE IF LoadRaises(Head(files))
            THEN [raised |-> FALSE, all_documents |-> rest.all_documents,
                  warnings |-> <<Head(files)>> \o rest.warnings]
          ELSE [raised |-> FALSE, all_documents |-> Processed(Head(files)) \o rest.all_documents,
                warnings |-> rest.warnings]

\* a question: blank says that question.strip() is empty, topic is the
\* embedding of its text
Questions == [blank : {FALSE}, topic : Topics] \cup {[blank |-> TRUE, topic |-> 0]}

\* the text of a question, as the conversation memory keeps it
QuestionText(question) ==
  IF question.blank THEN " "
  ELSE CASE question.topic = 0 -> "What is the savings rate?"
         [] question.topic = 1 -> "What does the rate table list?"
         [] question.topic = 2 -> "What is the audit policy?"
         [] OTHER -> "What is in the ledger?"

(* ---- helpers ---- *)
Min(a, b) == IF a < b THEN a ELSE b

Abs(a) == IF a < 0 THEN 0 - a ELSE a

RECURSIVE SumSeq(_)
SumSeq(s) == IF s = <<>> THEN 0 ELSE Head(s) + SumSeq(Tail(s))

\* collection.count(): the number of rows
RECURSIVE Count(_)
Count(idx) == IF idx = <<>> THEN 0 ELSE Head(idx).n + Count(Tail(idx))

\* the number of rows whose metadata file_path is source_path
RECURSIVE CountOf(_, _)
CountOf(idx, source_path) ==
  IF idx = <<>> THEN 0
  ELSE (IF Head(idx).doc.file_path = source_path THEN Head(idx).n ELSE 0)
       + CountOf(Tail(idx), source_path)

\* the rows in storage order, at most lim of each block (a search for k
\* rows never needs more than k equal ones)
RECURSIVE Rows(_, _)
Rows(idx, lim) ==
  IF idx = <<>> THEN <<>>
  ELSE [i \in 1 .. Min(Head(idx).n, lim) |-> Head(idx).doc] \o Rows(Tail(idx), lim)

\* the embedding model: distance of two embedded texts, and the similarity
\* score the scored search reports for it, in tenths
Distance(a, b) == Abs(a - b)

Score(a, b) == 10 - 2 * Distance(a, b)

\* rows by ascending distance to the query, ties in storage order
RECURSIVE RankFrom(_, _, _)
RankFrom(rows, query, d) ==
  IF d > Cardinality(Topics) THEN <<>>
  ELSE SelectSeq(rows, LAMBDA r : Distance(r.topic, query) = d) \o RankFrom(rows, query, d + 1)

TopK(idx, query, k) ==
  LET ranked == RankFrom(Rows(idx, k), query, 0)
  IN SubSeq(ranked, 1, Min(k, Len(ranked)))

Metadata(doc) == [file_path |-> doc.file_path, content_type |-> doc.content_type]

\* the sources with each file listed once, by its first chunk
RECURSIVE SourcesOf_unique(_)
SourcesOf_unique(docs) ==
  IF docs = <<>> THEN <<>>
  ELSE <<Metadata(Head(docs))>>
       \o SourcesOf_unique(SelectSeq(Tail(docs), LAMBDA d : d.file_path # Head(docs).file_path))

\* [doc.metadata for doc in docs]
SourcesOf(docs) == [i \in 1 .. Len(docs) |-> Metadata(docs[i])]

(* ---- BankingDocumentProcessor (document_processor.py) ---- *)

\* A text is a sequence of tokens [c, n]: n equal characters c that no table
\* region cuts through; " " is whitespace.  Offsets (start_pos, end_pos,
\* current_pos, len(content)) count tokens, lengths compared with the chunk
\* size count characters.
Token(c, n) == [c |-> c, n |-> n]

Tokens == {Token("x", 1), Token(" ", 1), Token("y", CHUNK_SIZE + 1)}

RECURSIVE CharLen(_)
CharLen(text) == IF text = <<>> THEN 0 ELSE Head(text).n + CharLen(Tail(text))

\* content[a:b]
Slice(content, a, b) == SubSeq(content, a + 1, b)

\* str.strip()
RECURSIVE LStrip(_)
LStrip(text) ==
  IF text = <<>> THEN <<>>
  ELSE IF Head(text).c = " " THEN LStrip(Tail(text)) ELSE text

RECURSIVE RStrip(_)
RStrip(text) ==
  IF text = <<>> THEN <<>>
  ELSE IF text[Len(text)].c = " " THEN RStrip(SubSeq(text, 1, Len(text) - 1)) ELSE text

Strip(text) == RStrip(LStrip(text))

\* the first k characters of a text, and the text without them
RECURSIVE TakeChars(_, _)
TakeChars(text, k) ==
  IF text = <<>> \/ k <= 0 THEN <<>>
  ELSE IF Head(text).n <= k THEN <<Head(text)>> \o TakeChars(Tail(text), k - Head(text).n)
  ELSE <<Token(Head(text).c, k)>>

RECURSIVE DropChars(_, _)
DropChars(text, k) ==
  IF text = <<>> \/ k <= 0 THEN text
  ELSE IF Head(text).n <= k THEN DropChars(Tail(text), k - Head(text).n)
  ELSE <<Token(Head(text).c, Head(text).n - k)>> \o Tail(text)

\* text longer than the chunk size: windows of chunk_size characters that
\* share chunk_overlap characters (what the splitter does where it finds no
\* separator to cut at)
RECURSIVE Windows(_)
Windows(text) ==
  IF CharLen(text) <= CHUNK_SIZE THEN <<text>>
  ELSE <<TakeChars(text, CHUNK_SIZE)>> \o Windows(DropChars(text, CHUNK_SIZE - CHUNK_OVERLAP))

\* text_splitter.split_text: the stripped text as one chunk when it fits
\* the chunk size, no chunk for blank text
split_text(text) ==
  IF Strip(text) = <<>> THEN <<>>
  ELSE IF CharLen(Strip(text)) <= CHUNK_SIZE THEN <<Strip(text)>>
  ELSE SelectSeq([i \in 1 .. Len(Windows(Strip(text))) |-> Strip(Windows(Strip(text))[i])],
                 LAMBDA piece : piece # <<>>)

\* a match of _extract_tables
Table(content, start_pos, end_pos) ==
  [text |-> Slice(content, start_pos, end_pos), start_pos |-> start_pos, end_pos |-> end_pos]

\* tables.sort(key=start_pos): stable
RECURSIVE InsertTable(_, _)
InsertTable(sorted, table) ==
  IF sorted = <<>> THEN <<table>>
  ELSE IF Head(sorted).start_pos <= table.start_pos THEN <<Head(sorted)>> \o InsertTable(Tail(sorted), table)
  ELSE <<table>> \o sorted

RECURSIVE SortTables(_)
SortTables(tables) ==
  IF tables = <<>> THEN <<>>
  ELSE InsertTable(SortTables(SubSeq(tables, 1, Len(tables) - 1)), tables[Len(tables)])

\* the chunks appended for the pieces of a text: chunk_id is len(chunks)
RECURSIVE text_chunks(_, _)
text_chunks(pieces, chunks) ==
  IF pieces = <<>> THEN chunks
  ELSE text_chunks(Tail(pieces),
                   Append(chunks, [page_content |-> Head(pieces), chunk_id |-> Len(chunks),
                                   content_type |-> "text"]))

\* a table handed to the text splitter like any other text
table_chunk_split(table, chunks) ==
  LET pieces == split_text(table.text)
  IN chunks \o [i \in 1 .. Len(pieces) |->
                 [page_content |-> pieces[i], chunk_id |-> Len(chunks) + i - 1, content_type |-> "table"]]

\* lines 146-157: the table as a single chunk
table_chunk(table, chunks) ==
  Append(chunks, [page_content |-> table.text, chunk_id |-> Len(chunks), content_type |-> "table"])

\* the loop of _chunk_with_tables over the sorted tables; returns the chunks
\* and current_pos
RECURSIVE chunk_tables(_, _, _, _)
chunk_tables(content, tables, current_pos, chunks) ==
  IF tables = <<>> THEN [chunks |-> chunks, current_pos |-> current_pos]
  ELSE LET table == Head(tables)
           pre_table_text == Strip(Slice(content, current_pos, table.start_pos))
           with_text == IF table.start_pos > current_pos /\ pre_table_text # <<>>
                          THEN text_chunks(split_text(pre_table_text), chunks)
                          ELSE chunks
       IN chunk_tables(content, Tail(tables), table.end_pos, table_chunk(table, with_text))

chunk_with_tables(content, tables) ==
  LET done == chunk_tables(content, SortTables(tables), 0, <<>>)
      remaining_text == Strip(Slice(content, done.current_pos, Len(content)))
  IN IF done.current_pos < Len(content) /\ remaining_text # <<>>
       THEN text_chunks(split_text(remaining_text), done.chunks)
       ELSE done.chunks

\* _process_documents for one loaded page; tables is what _extract_tables found
process_page(content, tables) ==
  IF tables # <<>> THEN chunk_with_tables(content, tables)
  ELSE text_chunks(split_text(content), <<>>)

\* _process_documents: the chunks of the pages the loader yielded, page
\* after page (processed_docs.extend / processed_docs.append)
RECURSIVE processed_docs(_)
processed_docs(documents) ==
  IF documents = <<>> THEN <<>>
  ELSE process_page(Head(documents).content, Head(documents).tables) \o processed_docs(Tail(documents))

\* the pages and the table regions the chunker is given
Contents == UNION {[1 .. n -> Tokens] : n \in 1 .. MaxTokens}

Regions(content) ==
  {Table(content, r[1], r[2]) :
     r \in {r \in (0 .. Len(content) - 1) \X (1 .. Len(content)) : r[1] < r[2]}}

TableLists(content) == UNION {[1 .. n -> Regions(content)] : n \in 0 .. MaxTables}

\* what loader.load() yields for a file: one document per page (PyPDFLoader)
\* or per row (CSVLoader), each with the regions _extract_tables finds in it
PageContents == {content \in Contents : Len(content) <= 2}

Pages ==
  UNION {{[content |-> content, tables |-> tables] :
            tables \in {t \in TableLists(content) : Len(t) <= 1}} : content \in PageContents}

PageLists == UNION {[1 .. n -> Pages] : n \in 1 .. MaxPages}

(* ---- state ---- *)
VARIABLES
  collection_id,   \* id of the chroma collection named banking_documents, 0 if there is none
  next_id,         \* id the next created collection gets
  entries,         \* the blocks of that collection
  vector_store,    \* per BankingVectorStore instance: id of the collection its Chroma handle is bound to, 0 for None
  memory,          \* ConversationBufferMemory.chat_memory.messages of the chain
  op,              \* the operation that ran last
  ret,             \* what it returned
  obs              \* the values it computed on the way

vars == <<collection_id, next_id, entries, vector_store, memory, op, ret, obs>>

Stores == {"assistant", "chain"}

\* a Chroma handle works iff it is bound to the collection that exists
HandleOk(h) == vector_store[h] # 0 /\ vector_store[h] = collection_id

(* ---- BankingVectorStore (vector_store.py) ---- *)

\* _initialize_vector_store: bind the handle to the collection of that name,
\* creating the collection when the client lists none
initialize_vector_store(cid, nid, fails) ==
  IF fails THEN [raised |-> TRUE, collection_id |-> cid, next_id |-> nid, handle |-> 0]
  ELSE IF cid # 0 THEN [raised |-> FALSE, collection_id |-> cid, next_id |-> nid, handle |-> cid]
  ELSE [raised |-> FALSE, collection_id |-> nid, next_id |-> nid + 1, handle |-> nid]

\* add_documents that skips the chunks the collection already holds
add_documents_dedup(h, documents, embed_fails, persist_fails) ==
  LET fresh == SelectSeq(documents, LAMBDA b : \A i \in 1 .. Len(entries) : entries[i].doc # b.doc)
  IN IF documents = <<>> THEN [raised |-> FALSE, entries |-> entries]
     ELSE IF ~HandleOk(h) \/ embed_fails THEN [raised |-> TRUE, entries |-> entries]
     ELSE IF persist_fails THEN [raised |-> TRUE, entries |-> entries \o fresh]
     ELSE [raised |-> FALSE, entries |-> entries \o fresh]

\* add_documents: embed and add the whole batch, then persist
add_documents(h, documents, embed_fails, persist_fails) ==
  IF documents = <<>> THEN [raised |-> FALSE, entries |-> entries]
  ELSE IF ~HandleOk(h) \/ embed_fails THEN [raised |-> TRUE, entries |-> entries]
  ELSE IF persist_fails THEN [raised |-> TRUE, entries |-> entries \o documents]
  ELSE [raised |-> FALSE, entries |-> entries \o documents]

similarity_search(h, query, k, embed_fails) ==
  IF ~HandleOk(h) \/ embed_fails THEN [raised |-> TRUE, value |-> <<>>]
  ELSE [raised |-> FALSE, value |-> TopK(entries, query, k)]

similarity_search_with_score(h, query, k, embed_fails) ==
  IF ~HandleOk(h) \/ embed_fails THEN [raised |-> TRUE, value |-> <<>>]
  ELSE [raised |-> FALSE,
        value |-> LET docs == TopK(entries, query, k)
                  IN [i \in 1 .. Len(docs) |-> [doc |-> docs[i], score |-> Score(docs[i].topic, query)]]]

\* get_collection_stats asks the client for the collection by its name
get_collection_stats(fails) ==
  IF collection_id = 0 \/ fails THEN [raised |-> TRUE, value |-> 0]
  ELSE [raised |-> FALSE, value |-> Count(entries)]

\* delete_collection that forgets the handle and recreates the collection
\* record without dropping its rows
delete_collection_keeps_rows(fails) ==
  IF collection_id = 0 \/ fails
    THEN [raised |-> TRUE, collection_id |-> collection_id, entries |-> entries]
    ELSE [raised |-> FALSE, collection_id |-> 0, entries |-> entries]

\* delete_collection: drop the collection by name, then forget the handle
delete_collection(fails) ==
  IF collection_id = 0 \/ fails
    THEN [raised |-> TRUE, collection_id |-> collection_id, entries |-> entries]
    ELSE [raised |-> FALSE, collection_id |-> 0, entries |-> <<>>]

\* get_all_documents: the first limit rows, in storage order
RECURSIVE FirstRows(_, _)
FirstRows(idx, limit) ==
  IF idx = <<>> \/ limit <= 0 THEN <<>>
  ELSE <<Block(Head(idx).doc, Min(Head(idx).n, limit))>>
       \o FirstRows(Tail(idx), limit - Min(Head(idx).n, limit))

get_all_documents(h, limit, fails) ==
  IF ~HandleOk(h) \/ fails THEN [raised |-> TRUE, value |-> <<>>]
  ELSE [raised |-> FALSE, value |-> FirstRows(entries, limit)]

\* the collection without those of its first limit rows that belong to source_path
RECURSIVE WithoutRows(_, _, _)
WithoutRows(idx, source_path, limit) ==
  IF idx = <<>> THEN <<>>
  ELSE LET b == Head(idx)
           seen == Min(b.n, IF limit < 0 THEN 0 ELSE limit)
           rest == WithoutRows(Tail(idx), source_path, limit - seen)
       IN IF b.doc.file_path = source_path /\ seen > 0
            THEN (IF b.n > seen THEN <<Block(b.doc, b.n - seen)>> ELSE <<>>) \o rest
            ELSE <<b>> \o rest

\* delete_documents_by_source: collect the documents of source_path among
\* get_all_documents() and delete them
delete_documents_by_source(h, source_path, get_fails, delete_fails) ==
  LET all_docs == get_all_documents(h, GetAllLimit, get_fails)
      docs_to_delete == SelectSeq(all_docs.value, LAMBDA b : b.doc.file_path = source_path)
  IN IF all_docs.raised THEN [raised |-> TRUE, entries |-> entries, deleted |-> 0]
     ELSE IF docs_to_delete = <<>> THEN [raised |-> FALSE, entries |-> entries, deleted |-> 0]
     ELSE IF delete_fails THEN [raised |-> TRUE, entries |-> entries, deleted |-> 0]
     ELSE [raised |-> FALSE,
           entries |-> WithoutRows(entries, source_path, GetAllLimit),
           deleted |-> Count(docs_to_delete)]

(* ---- BankingLLMManager (llm_manager.py) ---- *)
Refusal == "I cannot answer this question based on the uploaded documents. The information you're asking about is not available in the documents that have been loaded into the system."
Generated == "<text generated by the language model>"
GenerationError == "Error generating response: <error>"
QueryError == "Error processing query: <error>"

\* generate_response: the model's text, or the error text when llm.invoke raises
generate_response(prompt_type, llm_fails) ==
  IF llm_fails THEN GenerationError ELSE Generated

validate_banking_response(response, llm_fails) ==
  IF llm_fails THEN [error |-> "Validation failed: <error>"]
  ELSE [validation_response |-> "<validation report>", original_response |-> response]

\* texts the language model may answer a structured prompt with
StructuredOutputs == {"{\"loan_products\": []}", "{'loan_products': []}", "The documents list one loan."}

\* json.loads: the parsed value, or raised for text that is not JSON
json_loads(text) ==
  IF text = "{\"loan_products\": []}"
    THEN [raised |-> FALSE, value |-> [loan_products |-> <<>>]]
    ELSE [raised |-> TRUE, value |-> [loan_products |-> <<>>]]

\* generate_structured_response that reports unparseable text as an error
generate_structured_response_strict(output, llm_fails) ==
  IF llm_fails THEN [error |-> "<error>"]
  ELSE IF json_loads(output).raised THEN [error |-> "<error>"]
  ELSE json_loads(output).value

\* generate_structured_response: output is the text llm.invoke returns
generate_structured_response(output, llm_fails) ==
  IF llm_fails THEN [error |-> "<error>"]
  ELSE IF json_loads(output).raised THEN [response |-> output, format_error |-> TRUE]
  ELSE json_loads(output).value

(* ---- BankingRetrievalChain (retrieval_chain.py) ---- *)
RECURSIVE determine_prompt_type(_)
determine_prompt_type(documents) ==
  IF documents = <<>> THEN "banking"
  ELSE IF Head(documents).content_type = "table" THEN "table"
  ELSE IF Head(documents).keyword THEN "compliance"
  ELSE determine_prompt_type(Tail(documents))

\* the label with the upper threshold included in high
ConfidenceLabel_inclusive(scores) ==
  IF SumSeq(scores) >= HighThreshold * Len(scores) THEN "high"
  ELSE IF SumSeq(scores) > MediumThreshold * Len(scores) THEN "medium"
  ELSE "low"

\* the label of the average of the scores (sum / n against 0.8 and 0.6)
ConfidenceLabel(scores) ==
  IF SumSeq(scores) > HighThreshold * Len(scores) THEN "high"
  ELSE IF SumSeq(scores) > MediumThreshold * Len(scores) THEN "medium"
  ELSE "low"

ScoresOf(docs_with_scores) == [i \in 1 .. Len(docs_with_scores) |-> docs_with_scores[i].score]

\* _calculate_confidence without its try/except: the failure of the scored
\* search reaches the except branch of query
calculate_confidence_propagates(documents, answer_topic, score_fails) ==
  LET docs_with_scores == similarity_search_with_score("chain", answer_topic, Len(documents), score_fails)
  IN IF docs_with_scores.raised THEN "error"
     ELSE IF docs_with_scores.value # <<>> THEN ConfidenceLabel(ScoresOf(docs_with_scores.value))
     ELSE "medium"

\* _calculate_confidence: the label of the scored search for the answer text
calculate_confidence(documents, answer_topic, score_fails) ==
  LET docs_with_scores == similarity_search_with_score("chain", answer_topic, Len(documents), score_fails)
  IN IF docs_with_scores.raised THEN "medium"
     ELSE IF docs_with_scores.value # <<>> THEN ConfidenceLabel(ScoresOf(docs_with_scores.value))
     ELSE "medium"

\* the outcomes of the external calls one query makes; answer_topic is the
\* embedding of the answer text
QueryEnvs ==
  {e \in [embed_fails : BOOLEAN, llm_fails : BOOLEAN, validate_fails : BOOLEAN,
          score_fails : BOOLEAN, answer_topic : Topics] :
     \* outcomes of calls that are never made are not enumerated
     /\ e.embed_fails => (~e.llm_fails /\ ~e.validate_fails /\ ~e.score_fails)
     /\ (e.embed_fails \/ e.score_fails) => e.answer_topic = 0}

\* query without the early return for an empty retrieval
query_no_refusal(question, k, env) ==
  LET relevant_docs == similarity_search("chain", question.topic, k, env.embed_fails)
      prompt_type == determine_prompt_type(relevant_docs.value)
      answer == generate_response(prompt_type, env.llm_fails)
      validation == validate_banking_response(answer, env.validate_fails)
  IN IF relevant_docs.raised
       THEN [answer |-> QueryError, sources |-> <<>>, confidence |-> "error"]
     ELSE [answer |-> answer,
           sources |-> SourcesOf(relevant_docs.value),
           validation |-> validation,
           confidence |-> calculate_confidence(relevant_docs.value, env.answer_topic, env.score_fails)]

\* query that gives up when the validation call fails
query_validation_blocks(question, k, env) ==
  LET relevant_docs == similarity_search("chain", question.topic, k, env.embed_fails)
      prompt_type == determine_prompt_type(relevant_docs.value)
      answer == generate_response(prompt_type, env.llm_fails)
      validation == validate_banking_response(answer, env.validate_fails)
  IN IF relevant_docs.raised
       THEN [answer |-> QueryError, sources |-> <<>>, confidence |-> "error"]
     ELSE IF relevant_docs.value = <<>>
       THEN [answer |-> Refusal, sources |-> <<>>, confidence |-> "low"]
     ELSE IF env.validate_fails
       THEN [answer |-> QueryError, sources |-> <<>>, confidence |-> "error"]
     ELSE [answer |-> answer,
           sources |-> SourcesOf(relevant_docs.value),
           validation |-> validation,
           confidence |-> calculate_confidence(relevant_docs.value, env.answer_topic, env.score_fails)]

\* query(question, k): the returned dict
query(question, k, env) ==
  LET relevant_docs == similarity_search("chain", question.topic, k, env.embed_fails)
      prompt_type == determine_prompt_type(relevant_docs.value)
      answer == generate_response(prompt_type, env.llm_fails)
      validation == validate_banking_response(answer, env.validate_fails)
  IN IF relevant_docs.raised
       THEN [answer |-> QueryError, sources |-> <<>>, confidence |-> "error"]
     ELSE IF relevant_docs.value = <<>>
       THEN [answer |-> Refusal, sources |-> <<>>, confidence |-> "low"]
     ELSE [answer |-> answer,
           sources |-> SourcesOf(relevant_docs.value),
           validation |-> validation,
           confidence |-> calculate_confidence(relevant_docs.value, env.answer_topic, env.score_fails)]

\* ConversationBufferMemory.save_context: one human and one ai message
save_context(messages, input, output) ==
  messages \o <<[type |-> "human", content |-> input], [type |-> "ai", content |-> output]>>

\* turn.get(key, "")
Get(turn, key) == IF key \in DOMAIN turn THEN turn[key] ELSE ""

\* the loop of conversational_query over conversation_history
RECURSIVE save_history(_, _)
save_history(messages, conversation_history) ==
  IF conversation_history = <<>> THEN messages
  ELSE save_history(save_context(messages, Get(Head(conversation_history), "question"),
                                 Get(Head(conversation_history), "answer")),
                    Tail(conversation_history))

\* conversational_query that replaces the memory by the given history
conversational_query_replaces(question, conversation_history, env) ==
  LET result == query(question, DefaultK, env)
  IN [result |-> result,
      memory |-> save_context(save_history(<<>>, conversation_history), QuestionText(question), result.answer)]

\* conversational_query that lets the language model see the stored turns
conversational_query_contextual(question, conversation_history, env) ==
  LET result == query(question, DefaultK, env)
      messages == save_history(memory, conversation_history)
  IN [result |-> IF messages = <<>> THEN result
                 ELSE [result EXCEPT !.answer = "<text generated from the conversation>"],
      memory |-> save_context(messages, QuestionText(question), result.answer)]

\* conversational_query: the returned dict and the memory it leaves
conversational_query(question, conversation_history, env) ==
  LET result == query(question, DefaultK, env)
  IN [result |-> result,
      memory |-> save_context(save_history(memory, conversation_history), QuestionText(question), result.answer)]

None == [none |-> TRUE]

\* the outcomes of the external calls one structured query makes
StructuredEnvs ==
  {e \in [embed_fails : BOOLEAN, llm_fails : BOOLEAN, output : StructuredOutputs] :
     /\ e.embed_fails => ~e.llm_fails
     /\ (e.embed_fails \/ e.llm_fails) => e.output = "The documents list one loan."}

\* structured_query that always returns data and sources
structured_query_total(question, env) ==
  LET relevant_docs == similarity_search("chain", question.topic, 4, env.embed_fails)
  IN IF relevant_docs.raised
       THEN [error |-> "Structured query failed: <error>", data |-> None, sources |-> <<>>]
     ELSE IF relevant_docs.value = <<>>
       THEN [error |-> "No relevant documents found", data |-> None, sources |-> <<>>]
     ELSE [data |-> generate_structured_response(env.output, env.llm_fails),
           sources |-> SourcesOf(relevant_docs.value)]

\* structured_query: the returned dict
structured_query(question, env) ==
  LET relevant_docs == similarity_search("chain", question.topic, 4, env.embed_fails)
  IN IF relevant_docs.raised
       THEN [error |-> "Structured query failed: <error>", data |-> None]
     ELSE IF relevant_docs.value = <<>>
       THEN [error |-> "No relevant documents found", data |-> None]
     ELSE [data |-> generate_structured_response(env.output, env.llm_fails),
           sources |-> SourcesOf(relevant_docs.value)]

(* ---- BankingAssistant (banking_assistant.py) ---- *)

\* __init__ of BankingAssistant: its own BankingVectorStore creates the
\* collection, then the BankingVectorStore of the retrieval chain binds to it
Init ==
  /\ collection_id = 1
  /\ next_id = 2
  /\ entries = <<>>
  /\ vector_store = [h \in Stores |-> 1]
  /\ memory = <<>>
  /\ op = "init"
  /\ ret = [success |-> TRUE]
  /\ obs = [before |-> 0]

load_documents(document_path, embed_fails, persist_fails) ==
  LET documents == Processed(document_path)
      added == add_documents("assistant", documents, embed_fails, persist_fails)
  IN /\ Len(entries) + Len(documents) <= MaxBlocks
     /\ Count(entries) + Count(documents) <= MaxRows
     /\ op' = "load_documents"
     /\ obs' = [document_path |-> document_path, documents |-> documents,
                embed_fails |-> embed_fails, persist_fails |-> persist_fails,
                before |-> Count(entries), before_of |-> CountOf(entries, document_path)]
     /\ IF ~PathExists(document_path)
          THEN /\ ret' = [success |-> FALSE, message |-> "Error loading documents: <error>", document_count |-> 0]
               /\ entries' = entries
          ELSE IF documents = <<>>
          THEN /\ ret' = [success |-> FALSE, message |-> "No documents found or processed", document_count |-> 0]
               /\ entries' = entries
          ELSE /\ entries' = added.entries
               /\ ret' = IF added.raised
                           THEN [success |-> FALSE, message |-> "Error loading documents: <error>", document_count |-> 0]
                           ELSE [success |-> TRUE, message |-> "Successfully loaded document chunks",
                                 document_count |-> Count(documents),
                                 documents |-> [i \in 1 .. Len(documents) |-> Block(Metadata(documents[i].doc), documents[i].n)]]
     /\ UNCHANGED <<collection_id, next_id, vector_store, memory>>

\* load_documents for a path that is a directory holding files: what it
\* returns and the rows it leaves
load_documents_is_dir(files, embed_fails, persist_fails) ==
  LET loaded == load_documents_from_directory(files)
      documents == loaded.all_documents
      added == add_documents("assistant", documents, embed_fails, persist_fails)
  IN IF loaded.raised
       THEN [entries |-> entries,
             ret |-> [success |-> FALSE, message |-> "Error loading documents: <error>", document_count |-> 0]]
     ELSE IF documents = <<>>
       THEN [entries |-> entries,
             ret |-> [success |-> FALSE, message |-> "No documents found or processed", document_count |-> 0]]
     ELSE [entries |-> added.entries,
           ret |-> IF added.raised
                     THEN [success |-> FALSE, message |-> "Error loading documents: <error>", document_count |-> 0]
                     ELSE [success |-> TRUE, message |-> "Successfully loaded document chunks",
                           document_count |-> Count(documents),
                           documents |-> [i \in 1 .. Len(documents) |-> Block(Metadata(documents[i].doc), documents[i].n)]]]

load_documents_directory(files, embed_fails, persist_fails) ==
  /\ Len(entries) + Len(load_documents_from_directory(files).all_documents) <= MaxBlocks
  /\ \E loaded \in {load_documents_from_directory(files)},
        result \in {load_documents_is_dir(files, embed_fails, persist_fails)} :
       /\ op' = "load_documents"
       /\ obs' = [document_path |-> "docs", files |-> files, documents |-> loaded.all_documents,
                  warnings |-> loaded.warnings, raised |-> loaded.raised,
                  embed_fails |-> embed_fails, persist_fails |-> persist_fails,
                  before |-> Count(entries), before_of |-> 0]
       /\ entries' = result.entries
       /\ ret' = result.ret
  /\ UNCHANGED <<collection_id, next_id, vector_store, memory>>

\* load_sample_documents, lines 338-344: the envelope around the result of
\* load_documents
load_sample_envelope(result) ==
  [success |-> TRUE, message |-> "Sample documents loaded", document_count |-> result.document_count]

\* load_sample_documents: exists says whether sample_documents is there,
\* files is what it holds
load_sample_documents(exists, files, embed_fails, persist_fails) ==
  IF ~exists
    THEN /\ op' = "load_sample_documents"
         /\ obs' = [exists |-> FALSE]
         /\ ret' = [success |-> FALSE, message |-> "Sample documents directory not found", document_count |-> 0]
         /\ UNCHANGED <<collection_id, next_id, entries, vector_store, memory>>
    ELSE /\ Len(entries) + Len(load_documents_from_directory(files).all_documents) <= MaxBlocks
         /\ \E result \in {load_documents_is_dir(files, embed_fails, persist_fails)} :
              /\ op' = "load_sample_documents"
              /\ obs' = [exists |-> TRUE, files |-> files, result |-> result.ret, before |-> Count(entries)]
              /\ entries' = result.entries
              /\ ret' = load_sample_envelope(result.ret)
         /\ UNCHANGED <<collection_id, next_id, vector_store, memory>>

\* ask_question that stores the question and the answer in the memory
ask_question_remembers(question, env) ==
  \E result \in {query(question, DefaultK, env)} :
    /\ Len(memory) < 2 * MaxTurns
    /\ op' = "ask_question"
    /\ ret' = [success |-> TRUE, answer |-> result.answer, sources |-> result.sources,
               confidence |-> result.confidence,
               validation |-> IF "validation" \in DOMAIN result THEN result.validation ELSE <<>>]
    /\ obs' = [question |-> question, env |-> env, result |-> result, calls |-> <<"similarity_search">>]
    /\ memory' = save_context(memory, QuestionText(question), result.answer)
    /\ UNCHANGED <<collection_id, next_id, entries, vector_store>>

\* ask_question without the check for a blank question
ask_question_unchecked(question, env) ==
  \E result \in {query(question, DefaultK, env)},
     relevant_docs \in {similarity_search("chain", question.topic, DefaultK, env.embed_fails)} :
    /\ op' = "ask_question"
    /\ ret' = [success |-> TRUE, answer |-> result.answer, sources |-> result.sources,
               confidence |-> result.confidence,
               validation |-> IF "validation" \in DOMAIN result THEN result.validation ELSE <<>>]
    /\ obs' = [question |-> question, env |-> env, result |-> result,
               relevant_docs |-> relevant_docs,
               prompt_type |-> determine_prompt_type(relevant_docs.value),
               scored |-> [raised |-> TRUE, scores |-> <<>>],
               calls |-> <<"similarity_search">>]
    /\ UNCHANGED <<collection_id, next_id, entries, vector_store, memory>>

\* ask_question: the envelope around query(question); obs keeps the values
\* query computed on the way (its local variables)
ask_question(question, env) ==
  IF question.blank
    THEN /\ op' = "ask_question"
         /\ ret' = [success |-> FALSE, answer |-> "Please provide a valid question.",
                    sources |-> <<>>, confidence |-> "low"]
         /\ obs' = [question |-> question, calls |-> <<>>]
         /\ UNCHANGED <<collection_id, next_id, entries, vector_store, memory>>
    ELSE \E result \in {query(question, DefaultK, env)},
            relevant_docs \in {similarity_search("chain", question.topic, DefaultK, env.embed_fails)} :
         \E scored \in {similarity_search_with_score("chain", env.answer_topic, Len(relevant_docs.value), env.score_fails)} :
           /\ op' = "ask_question"
           /\ ret' = [success |-> TRUE, answer |-> result.answer, sources |-> result.sources,
                      confidence |-> result.confidence,
                      validation |-> IF "validation" \in DOMAIN result THEN result.validation ELSE <<>>]
           /\ obs' = [question |-> question, env |-> env, result |-> result,
                      relevant_docs |-> relevant_docs,
                      prompt_type |-> determine_prompt_type(relevant_docs.value),
                      scored |-> [raised |-> scored.raised, scores |-> ScoresOf(scored.value)],
                      calls |-> IF relevant_docs.raised \/ relevant_docs.value = <<>>
                                  THEN <<"similarity_search">>
                                  ELSE <<"similarity_search", "generate_response",
                                         "validate_banking_response", "similarity_search_with_score">>]
           /\ UNCHANGED <<collection_id, next_id, entries, vector_store, memory>>

search_documents(query_topic, k, embed_fails) ==
  LET found == similarity_search("assistant", query_topic, k, embed_fails)
  IN /\ op' = "search_documents"
     /\ obs' = [query |-> query_topic, k |-> k, embed_fails |-> embed_fails, after_insert |-> (op = "load_documents" /\ ret.success)]
     /\ ret' = IF found.raised
                 THEN [success |-> FALSE, error |-> "Error searching documents: <error>"]
                 ELSE [success |-> TRUE, documents |-> found.value, count |-> Len(found.value)]
     /\ UNCHANGED <<collection_id, next_id, entries, vector_store, memory>>

get_knowledge_base_stats(fails) ==
  LET stats == get_collection_stats(fails)
  IN /\ op' = "get_knowledge_base_stats"
     /\ obs' = [fails |-> fails]
     /\ ret' = IF stats.raised
                 THEN [success |-> FALSE, error |-> "Error getting stats: <error>"]
                 ELSE [success |-> TRUE, document_count |-> stats.value,
                       conversation_history_length |-> Len(memory)]
     /\ UNCHANGED <<collection_id, next_id, entries, vector_store, memory>>

delete_document(document_id, get_fails, delete_fails) ==
  LET deleted == delete_documents_by_source("assistant", document_id, get_fails, delete_fails)
  IN /\ op' = "delete_document"
     /\ obs' = [document_id |-> document_id, before |-> Count(entries),
                before_of |-> CountOf(entries, document_id), deleted |-> deleted.deleted]
     /\ entries' = deleted.entries
     /\ ret' = IF deleted.raised
                 THEN [success |-> FALSE, error |-> "Error deleting document: <error>"]
                 ELSE [success |-> TRUE, message |-> "Document deleted successfully", deleted_document |-> document_id]
     /\ UNCHANGED <<collection_id, next_id, vector_store, memory>>

\* reset_knowledge_base: reset_vector_store (delete_collection, then
\* _initialize_vector_store) on the assistant's store, then clear_memory
reset_knowledge_base(delete_fails, init_fails) ==
  LET dropped == delete_collection(delete_fails)
      created == initialize_vector_store(dropped.collection_id, next_id, init_fails)
  IN /\ next_id - 2 < MaxResets
     /\ op' = "reset_knowledge_base"
     /\ obs' = [delete_fails |-> delete_fails, init_fails |-> init_fails, before |-> Count(entries)]
     /\ IF dropped.raised
          THEN /\ UNCHANGED <<collection_id, next_id, entries, vector_store, memory>>
               /\ ret' = [success |-> FALSE, error |-> "Error resetting knowledge base: <error>"]
          ELSE /\ entries' = dropped.entries
               /\ collection_id' = created.collection_id
               /\ next_id' = created.next_id
               /\ vector_store' = [vector_store EXCEPT !["assistant"] = created.handle]
               /\ IF created.raised
                    THEN /\ memory' = memory
                         /\ ret' = [success |-> FALSE, error |-> "Error resetting knowledge base: <error>"]
                    ELSE /\ memory' = <<>>
                         /\ ret' = [success |-> TRUE, message |-> "Knowledge base reset successfully"]

\* conversational_ask: the envelope around conversational_query
conversational_ask(question, conversation_history, env) ==
  \E answered \in {conversational_query(question, conversation_history, env)} :
    /\ Len(memory) + 2 * (Len(conversation_history) + 1) <= 2 * MaxTurns
    /\ op' = "conversational_ask"
    /\ memory' = answered.memory
    /\ ret' = [success |-> TRUE, answer |-> answered.result.answer, sources |-> answered.result.sources,
               confidence |-> answered.result.confidence,
               validation |-> IF "validation" \in DOMAIN answered.result THEN answered.result.validation ELSE <<>>]
    /\ obs' = [question |-> question, conversation_history |-> conversation_history,
               env |-> env, result |-> answered.result, before |-> memory]
    /\ UNCHANGED <<collection_id, next_id, entries, vector_store>>

\* get_loan_information and get_compliance_requirements without their try/except
structured_envelope_unguarded(result, what) ==
  IF "sources" \in DOMAIN result
    THEN [success |-> TRUE, data |-> result.data, sources |-> result.sources]
    ELSE [raised |-> "KeyError: 'sources'"]

\* what get_loan_information and get_compliance_requirements return for the
\* result of structured_query: reading a missing key raises inside the try
structured_envelope(result, what) ==
  IF "sources" \in DOMAIN result
    THEN [success |-> TRUE, data |-> result.data, sources |-> result.sources]
    ELSE [success |-> FALSE, error |-> IF what = "loan" THEN "Error getting loan information: 'sources'"
                                       ELSE "Error getting compliance requirements: 'sources'"]

LoanTypes == {"None", "home"}

RegulationTypes == {"None", "KYC"}

\* the questions the two operations build, by their embedding
LoanQuestion(loan_type) == [blank |-> FALSE, topic |-> IF loan_type = "None" THEN 0 ELSE 1]

ComplianceQuestion(regulation_type) == [blank |-> FALSE, topic |-> IF regulation_type = "None" THEN 2 ELSE 3]

get_loan_information(loan_type, env) ==
  \E result \in {structured_query(LoanQuestion(loan_type), env)} :
    /\ op' = "get_loan_information"
    /\ ret' = structured_envelope(result, "loan")
    /\ obs' = [question |-> LoanQuestion(loan_type), env |-> env, result |-> result]
    /\ UNCHANGED <<collection_id, next_id, entries, vector_store, memory>>

get_compliance_requirements(regulation_type, env) ==
  \E result \in {structured_query(ComplianceQuestion(regulation_type), env)} :
    /\ op' = "get_compliance_requirements"
    /\ ret' = structured_envelope(result, "compliance")
    /\ obs' = [question |-> ComplianceQuestion(regulation_type), env |-> env, result |-> result]
    /\ UNCHANGED <<collection_id, next_id, entries, vector_store, memory>>

\* clear_memory whose memory.clear() fails, which clear_memory only prints
clear_memory_swallowed == memory

\* clear_memory: memory.clear()
clear_memory == <<>>

clear_conversation_history ==
  /\ op' = "clear_conversation_history"
  /\ memory' = clear_memory
  /\ ret' = [success |-> TRUE, message |-> "Conversation history cleared successfully"]
  /\ obs' = [before |-> memory]
  /\ UNCHANGED <<collection_id, next_id, entries, vector_store>>

\* the environments of a query in which no capability fails after retrieval
PlainEnvs == {e \in QueryEnvs : ~e.llm_fails /\ ~e.validate_fails /\ ~e.score_fails /\ e.answer_topic = 0}

\* the facade under every index operation; queries meet retrieval failures only
Next ==
  \/ \E p \in Paths, ef \in BOOLEAN, pf \in BOOLEAN : load_documents(p, ef, pf)
  \/ \E q \in Questions, env \in PlainEnvs : ask_question(q, env)
  \/ \E t \in Topics, k \in {1, SearchDocumentsK}, ef \in BOOLEAN : search_documents(t, k, ef)
  \/ \E f \in BOOLEAN : get_knowledge_base_stats(f)
  \/ \E d \in Sources, gf \in BOOLEAN, df \in BOOLEAN : delete_document(d, gf, df)
  \/ \E df \in BOOLEAN, nf \in BOOLEAN : reset_knowledge_base(df, nf)

Spec == Init /\ [][Next]_vars

\* loading and asking, under every outcome of the external calls of a query
NextQuery ==
  \/ \E p \in Paths, ef \in BOOLEAN, pf \in BOOLEAN : load_documents(p, ef, pf)
  \/ \E q \in Questions, env \in QueryEnvs : ask_question(q, env)

SpecQuery == Init /\ [][NextQuery]_vars

\* the turns a caller passes along: well-formed ones, and the messages the
\* front end sends (role and content instead of question and answer)
Turn1 == [question |-> "Hello", answer |-> "Hi, how can I help?"]

Turn2 == [question |-> "Which rates apply?", answer |-> "See the rate table."]

FrontendMessage == [role |-> "user", content |-> "Hello"]

Histories == {<<>>, <<Turn1, Turn2>>, <<FrontendMessage>>}

ConvPaths == {"rates.txt", "empty.txt", "missing.txt"}

ConvQuestions == {q \in Questions : q.topic \in {0, 2}}

\* a query's environments by which calls fail
ConvEnvs == {e \in QueryEnvs : e.answer_topic = 0}

\* what sample_documents may hold
SampleDirectories == {<<>>, <<"corrupt.pdf">>, <<"rates.txt", "corrupt.pdf">>}

\* every public operation of the facade, under failures of the index and of
\* the capabilities; conversations carry a history of two turns
NextFacade ==
  \/ \E p \in ConvPaths, ef \in BOOLEAN, pf \in BOOLEAN : load_documents(p, ef, pf)
  \/ \E q \in ConvQuestions, env \in ConvEnvs : ask_question(q, env)
  \/ \E q \in ConvQuestions, env \in PlainEnvs : conversational_ask(q, <<Turn1, Turn2>>, env)
  \/ \E t \in LoanTypes, env \in StructuredEnvs : get_loan_information(t, env)
  \/ \E t \in RegulationTypes, env \in StructuredEnvs : get_compliance_requirements(t, env)
  \/ \E ef \in BOOLEAN : search_documents(0, SearchDocumentsK, ef)
  \/ \E f \in BOOLEAN : get_knowledge_base_stats(f)
  \/ \E d \in {"rates.txt", "missing.txt"}, gf \in BOOLEAN, df \in BOOLEAN : delete_document(d, gf, df)
  \/ \E df \in BOOLEAN, nf \in BOOLEAN : reset_knowledge_base(df, nf)
  \/ clear_conversation_history
  \/ \E exists \in BOOLEAN, files \in SampleDirectories, ef \in BOOLEAN :
       load_sample_documents(exists, files, ef, FALSE)

SpecFacade == Init /\ [][NextFacade]_vars

\* the conversation memory under conversations, clearing and resets
NextConv ==
  \/ \E ef \in BOOLEAN : load_documents("rates.txt", ef, FALSE)
  \/ \E env \in PlainEnvs : ask_question([blank |-> FALSE, topic |-> 0], env)
  \/ \E h \in Histories, env \in PlainEnvs : conversational_ask([blank |-> FALSE, topic |-> 0], h, env)
  \/ \E f \in BOOLEAN : get_knowledge_base_stats(f)
  \/ \E df \in BOOLEAN, nf \in BOOLEAN : reset_knowledge_base(df, nf)
  \/ clear_conversation_history

SpecConv == Init /\ [][NextConv]_vars

\* loading single files and directories, with deletes making room
NextDir ==
  \/ \E p \in ConvPaths, ef \in BOOLEAN, pf \in BOOLEAN : load_documents(p, ef, pf)
  \/ \E files \in Directories, ef \in BOOLEAN : load_documents_directory(files, ef, FALSE)
  \/ \E f \in BOOLEAN : get_knowledge_base_stats(f)
  \/ \E d \in {"rates.txt", "policy.txt"} : delete_document(d, FALSE, FALSE)

SpecDir == Init /\ [][NextDir]_vars

(* ---- the chunker applied to a page ---- *)
process_documents(content, tables) ==
  /\ op' = "process_documents"
  /\ obs' = [content |-> content, tables |-> tables]
  /\ ret' = process_page(content, tables)
  /\ UNCHANGED <<collection_id, next_id, entries, vector_store, memory>>

\* one page per behaviour: the chunker keeps no state between pages
NextChunk ==
  /\ op = "init"
  /\ \E content \in Contents : \E tables \in TableLists(content) : process_documents(content, tables)

SpecChunk == Init /\ [][NextChunk]_vars

(* ---- a file of several pages through load_document ---- *)
load_document(documents) ==
  /\ op' = "load_document"
  /\ obs' = [documents |-> documents]
  /\ ret' = processed_docs(documents)
  /\ UNCHANGED <<collection_id, next_id, entries, vector_store, memory>>

\* one file per behaviour
NextPages ==
  /\ op = "init"
  /\ \E documents \in PageLists : load_document(documents)

SpecPages == Init /\ [][NextPages]_vars

(* ---- query, one call at a time (retrieval_chain.py, lines 45-89) ---- *)

\* no call of the query has failed so far
NoFailure == [embed_fails |-> FALSE, llm_fails |-> FALSE, validate_fails |-> FALSE,
              score_fails |-> FALSE, answer_topic |-> 0]

\* no query is under way
Idle == IF op = "query" THEN obs.pc = "done" ELSE TRUE

At(pc) == op = "query" /\ obs.pc = pc

\* ask_question hands the question to query
query_start(question) ==
  /\ Idle
  /\ op' = "query"
  /\ obs' = [pc |-> "search", question |-> question, env |-> NoFailure, calls |-> <<>>,
             relevant_docs |-> <<>>, prompt_type |-> "", answer |-> "",
             validation |-> <<>>, outcome |-> "running"]
  /\ UNCHANGED <<collection_id, next_id, entries, vector_store, memory, ret>>

\* a retrieval step that searches again when the search raised
query_search_retrying(embed_fails) ==
  /\ At("search")
  /\ \E relevant_docs \in {similarity_search("chain", obs.question.topic, DefaultK, embed_fails)} :
    /\ Len(obs.calls) < 2
    /\ IF relevant_docs.raised
         THEN /\ obs' = [obs EXCEPT !.calls = Append(@, "similarity_search")]
              /\ ret' = ret
         ELSE IF relevant_docs.value = <<>>
         THEN /\ obs' = [obs EXCEPT !.pc = "done", !.calls = Append(@, "similarity_search"),
                                    !.outcome = "NoEvidence"]
              /\ ret' = [answer |-> Refusal, sources |-> <<>>, confidence |-> "low"]
         ELSE /\ obs' = [obs EXCEPT !.pc = "generate", !.calls = Append(@, "similarity_search"),
                                    !.relevant_docs = relevant_docs.value]
              /\ ret' = ret
    /\ UNCHANGED <<collection_id, next_id, entries, vector_store, memory, op>>

\* lines 47-58 and 84-89: the retrieval search, the early return for no
\* chunks, the except branch when the search raised
query_search(embed_fails) ==
  /\ At("search")
  /\ \E relevant_docs \in {similarity_search("chain", obs.question.topic, DefaultK, embed_fails)} :
    /\ IF relevant_docs.raised
         THEN /\ obs' = [obs EXCEPT !.pc = "done", !.calls = Append(@, "similarity_search"),
                                    !.env.embed_fails = TRUE, !.outcome = "error"]
              /\ ret' = [answer |-> QueryError, sources |-> <<>>, confidence |-> "error"]
         ELSE IF relevant_docs.value = <<>>
         THEN /\ obs' = [obs EXCEPT !.pc = "done", !.calls = Append(@, "similarity_search"),
                                    !.outcome = "NoEvidence"]
              /\ ret' = [answer |-> Refusal, sources |-> <<>>, confidence |-> "low"]
         ELSE /\ obs' = [obs EXCEPT !.pc = "generate", !.calls = Append(@, "similarity_search"),
                                    !.relevant_docs = relevant_docs.value]
              /\ ret' = ret
    /\ UNCHANGED <<collection_id, next_id, entries, vector_store, memory, op>>

\* lines 61-71: context, prompt type, generate_response
query_generate(llm_fails) ==
  /\ At("generate")
  /\ obs' = [obs EXCEPT !.pc = "validate", !.calls = Append(@, "generate_response"),
                        !.env.llm_fails = llm_fails,
                        !.prompt_type = determine_prompt_type(obs.relevant_docs),
                        !.answer = generate_response(determine_prompt_type(obs.relevant_docs), llm_fails)]
  /\ UNCHANGED <<collection_id, next_id, entries, vector_store, memory, op, ret>>

\* line 74: validate_banking_response
query_validate(llm_fails) ==
  /\ At("validate")
  /\ obs' = [obs EXCEPT !.pc = "score", !.calls = Append(@, "validate_banking_response"),
                        !.env.validate_fails = llm_fails,
                        !.validation = validate_banking_response(obs.answer, llm_fails)]
  /\ UNCHANGED <<collection_id, next_id, entries, vector_store, memory, op, ret>>

\* lines 76-82 and 139-160: the scored search of _calculate_confidence,
\* the label of its scores, the return
query_score(answer_topic, score_fails) ==
  /\ At("score")
  /\ \E docs_with_scores \in {similarity_search_with_score("chain", answer_topic, Len(obs.relevant_docs), score_fails)} :
     \E scores \in {ScoresOf(docs_with_scores.value)} :
       /\ obs' = [obs EXCEPT !.pc = "done", !.calls = Append(@, "similarity_search_with_score"),
                             !.env.score_fails = score_fails, !.env.answer_topic = answer_topic,
                             !.outcome = "answered"]
       /\ ret' = [answer |-> obs.answer,
                  sources |-> SourcesOf(obs.relevant_docs),
                  validation |-> obs.validation,
                  confidence |-> IF docs_with_scores.raised \/ scores = <<>> THEN "medium"
                                 ELSE ConfidenceLabel(scores)]
  /\ UNCHANGED <<collection_id, next_id, entries, vector_store, memory, op>>

\* the next call of the query under way
QueryStep ==
  \/ \E ef \in BOOLEAN : query_search(ef)
  \/ \E lf \in BOOLEAN : query_generate(lf)
  \/ \E vf \in BOOLEAN : query_validate(vf)
  \/ \E e \in {e \in QueryEnvs : ~e.embed_fails /\ ~e.llm_fails /\ ~e.validate_fails} :
       query_score(e.answer_topic, e.score_fails)

\* queries running call by call, documents loaded between them
NextSteps ==
  \/ \E p \in Paths : Idle /\ load_documents(p, FALSE, FALSE)
  \/ \E q \in {q \in Questions : ~q.blank /\ q.topic \in {0, 2}} : query_start(q)
  \/ QueryStep

SpecSteps == Init /\ [][NextSteps]_vars

\* query is straight-line code: the call it has reached is made
SpecStepsFair == SpecSteps /\ WF_vars(QueryStep)

(* ---- a search or an ask while the index is reset or deleted from ---- *)
(* vector_store.py takes no lock: reset_vector_store is delete_collection  *)
(* followed by _initialize_vector_store, delete_documents_by_source is     *)
(* get_all_documents followed by the delete, and a reader on another       *)
(* thread runs between the two calls, before them or after them.           *)

Mutations == {"reset_knowledge_base", "delete_document"}

Mutating == op \in Mutations

\* no mutation is under way
Settled == IF Mutating THEN obs.pc = "done" ELSE TRUE

Unobserved == [at |-> "none"]

\* reset_vector_store, first call: delete_collection drops the collection
\* and sets the handle to None
reset_delete_collection(fails) ==
  /\ Settled
  /\ next_id - 2 < MaxResets
  /\ \E dropped \in {delete_collection(fails)} :
       /\ op' = "reset_knowledge_base"
       /\ entries' = dropped.entries
       /\ collection_id' = dropped.collection_id
       /\ vector_store' = IF dropped.raised THEN vector_store
                          ELSE [vector_store EXCEPT !["assistant"] = 0]
       /\ obs' = [pc |-> IF dropped.raised THEN "done" ELSE "initialize",
                  before |-> entries, source_path |-> "", observed |-> Unobserved]
       /\ ret' = IF dropped.raised
                   THEN [success |-> FALSE, error |-> "Error resetting knowledge base: <error>"]
                   ELSE ret
       /\ UNCHANGED <<next_id, memory>>

\* reset_vector_store, second call: _initialize_vector_store, then
\* clear_memory and the envelope of reset_knowledge_base
reset_initialize(fails) ==
  /\ op = "reset_knowledge_base"
  /\ obs.pc = "initialize"
  /\ \E created \in {initialize_vector_store(collection_id, next_id, fails)} :
       /\ collection_id' = created.collection_id
       /\ next_id' = created.next_id
       /\ vector_store' = [vector_store EXCEPT !["assistant"] = created.handle]
       /\ memory' = IF created.raised THEN memory ELSE clear_memory
       /\ ret' = IF created.raised
                   THEN [success |-> FALSE, error |-> "Error resetting knowledge base: <error>"]
                   ELSE [success |-> TRUE, message |-> "Knowledge base reset successfully"]
       /\ obs' = [obs EXCEPT !.pc = "done"]
       /\ UNCHANGED <<entries, op>>

\* delete_documents_by_source, first call: get_all_documents and the
\* selection of the documents of source_path
delete_get_all_documents(source_path, fails) ==
  /\ Settled
  /\ \E all_docs \in {get_all_documents("assistant", GetAllLimit, fails)} :
     \E docs_to_delete \in {SelectSeq(all_docs.value, LAMBDA b : b.doc.file_path = source_path)} :
       /\ op' = "delete_document"
       /\ obs' = [pc |-> IF all_docs.raised \/ docs_to_delete = <<>> THEN "done" ELSE "delete",
                  before |-> entries, source_path |-> source_path, observed |-> Unobserved]
       /\ ret' = IF all_docs.raised
                   THEN [success |-> FALSE, error |-> "Error deleting document: <error>"]
                   ELSE IF docs_to_delete = <<>>
                   THEN [success |-> TRUE, message |-> "Document deleted successfully", deleted_document |-> source_path]
                   ELSE ret
       /\ UNCHANGED <<collection_id, next_id, entries, vector_store, memory>>

\* delete_documents_by_source, second call: the delete of the collected
\* documents, then the envelope of delete_document
delete_collected(fails) ==
  /\ op = "delete_document"
  /\ obs.pc = "delete"
  /\ entries' = IF fails THEN entries ELSE WithoutRows(entries, obs.source_path, GetAllLimit)
  /\ ret' = IF fails
              THEN [success |-> FALSE, error |-> "Error deleting document: <error>"]
              ELSE [success |-> TRUE, message |-> "Document deleted successfully", deleted_document |-> obs.source_path]
  /\ obs' = [obs EXCEPT !.pc = "done"]
  /\ UNCHANGED <<collection_id, next_id, vector_store, memory, op>>

\* search_documents on another thread, at whatever point the mutation has
\* reached; observed keeps what it returned
search_meanwhile(query_topic, k) ==
  /\ Mutating
  /\ obs.observed = Unobserved
  /\ \E found \in {similarity_search("assistant", query_topic, k, FALSE)} :
       obs' = [obs EXCEPT !.observed = [at |-> obs.pc, reader |-> "search_documents",
                                        query |-> query_topic, k |-> k,
                                        success |-> ~found.raised, documents |-> found.value]]
  /\ UNCHANGED <<collection_id, next_id, entries, vector_store, memory, op, ret>>

\* ask_question on another thread: query searches through the chain's store
ask_meanwhile(question) ==
  /\ Mutating
  /\ obs.observed = Unobserved
  /\ \E result \in {query(question, DefaultK, NoFailure)},
        relevant_docs \in {similarity_search("chain", question.topic, DefaultK, FALSE)} :
       obs' = [obs EXCEPT !.observed = [at |-> obs.pc, reader |-> "ask_question",
                                        query |-> question.topic, k |-> DefaultK,
                                        success |-> result.confidence # "error",
                                        documents |-> relevant_docs.value]]
  /\ UNCHANGED <<collection_id, next_id, entries, vector_store, memory, op, ret>>

RacePaths == {"rates.txt", "policy.txt"}

NextRace ==
  \/ \E p \in RacePaths : Settled /\ load_documents(p, FALSE, FALSE)
  \/ \E f \in BOOLEAN : reset_delete_collection(f)
  \/ \E f \in BOOLEAN : reset_initialize(f)
  \/ \E d \in RacePaths, f \in BOOLEAN : delete_get_all_documents(d, f)
  \/ \E f \in BOOLEAN : delete_collected(f)
  \/ \E t \in {0, 2}, k \in {1, SearchDocumentsK} : search_meanwhile(t, k)
  \/ \E t \in {0, 2} : ask_meanwhile([blank |-> FALSE, topic |-> t])

SpecRace == Init /\ [][NextRace]_vars

(* ---- properties ---- *)

\* ask_question reached query (the question was not blank)
Asked == op = "ask_question" /\ ~obs.question.blank

Retrieved == obs.relevant_docs.value

NoEvidence == [answer |-> Refusal, sources |-> <<>>, confidence |-> "low"]

\* C1: whenever the retrieval search of a query returns no chunks, the
\* result is the fixed refusal message with confidence low and no sources.
C1_EmptyRetrievalRefuses ==
  (Asked /\ ~obs.relevant_docs.raised /\ Retrieved = <<>>)
    => (obs.result = NoEvidence /\ ret.answer = Refusal /\ ret.sources = <<>> /\ ret.confidence = "low")

C1_Witness ==
  /\ Asked /\ ~obs.relevant_docs.raised /\ Retrieved = <<>>
  /\ obs.result = NoEvidence
  /\ ret.success

\* C2: when the retrieval search raises or the generate call raises, the
\* outcome of the query has confidence error, no sources and an answer
\* holding the error description.
C2_FailureIsError ==
  (Asked /\ (obs.relevant_docs.raised \/ (Retrieved # <<>> /\ obs.env.llm_fails)))
    => /\ obs.result.confidence = "error"
       /\ obs.result.sources = <<>>
       /\ obs.result.answer \in {QueryError, GenerationError}

\* C3: for a non-empty index holding only chunks unrelated to the question
\* (and no failing capability), ask_question returns the fixed refusal and
\* no sources.
C3_UnrelatedIndexRefuses ==
  (/\ Asked
   /\ ~obs.env.embed_fails /\ ~obs.env.llm_fails /\ ~obs.env.validate_fails /\ ~obs.env.score_fails
   /\ HandleOk("chain")
   /\ entries # <<>>
   /\ \A i \in 1 .. Len(entries) : entries[i].doc.topic # obs.question.topic)
    => (ret.answer = Refusal /\ ret.sources = <<>>)

OtherSources(idx, source_path) == SelectSeq(idx, LAMBDA b : b.doc.file_path # source_path)

\* C4: after a delete by source that completes, no row of that source is
\* left, the count went down by the number of rows the source had, and the
\* rows of every other source are unchanged.
C4_DeleteCompletely ==
  [][(op' = "delete_document" /\ ret'.success)
       => /\ CountOf(entries', obs'.document_id) = 0
          /\ Count(entries') = Count(entries) - CountOf(entries, obs'.document_id)
          /\ OtherSources(entries', obs'.document_id) = OtherSources(entries, obs'.document_id)]_vars

DocsOf(blocks) == {blocks[i].doc : i \in 1 .. Len(blocks)}

\* C5: every reset that completes leaves an empty, readable collection bound
\* to the store, also when it follows another reset; after resets an insert
\* into the store succeeds, and a search that follows it returns the inserted
\* chunks (as many as k allows).
C5_ResetRoundTrip ==
  [][/\ (op' = "reset_knowledge_base" /\ ret'.success)
          => /\ Count(entries') = 0
             /\ collection_id' # 0
             /\ vector_store'["assistant"] = collection_id'
     /\ (op = "reset_knowledge_base" /\ ret.success /\ op' = "reset_knowledge_base"
           /\ ~obs'.delete_fails /\ ~obs'.init_fails)
          => ret'.success
     /\ (op' = "load_documents" /\ next_id > 2 /\ HandleOk("assistant")
           /\ obs'.documents # <<>> /\ ~obs'.embed_fails /\ ~obs'.persist_fails)
          => (ret'.success /\ entries' = entries \o obs'.documents)
     /\ (op = "load_documents" /\ ret.success /\ obs.before = 0 /\ next_id > 2
           /\ op' = "search_documents" /\ ~obs'.embed_fails)
          => /\ ret'.success
             /\ ret'.count = Min(obs'.k, Count(obs.documents))
             /\ \A i \in 1 .. ret'.count : ret'.documents[i] \in DocsOf(obs.documents)]_vars

C5_Witness ==
  /\ op = "search_documents" /\ obs.after_insert
  /\ ret.success /\ ret.count > 0 /\ ret.count = Count(entries)
  /\ next_id = 4

\* C6: while the assistant's store works, ask_question retrieves from the
\* collection that load_documents, delete_document and reset_knowledge_base
\* act on: the search does not fail, an empty collection gives the
\* no-evidence outcome, and otherwise the chunks of the collection are retrieved.
C6_AnswererSharesIndex ==
  (Asked /\ ~obs.env.embed_fails /\ HandleOk("assistant"))
    => /\ ~obs.relevant_docs.raised
       /\ ret.confidence # "error"
       /\ Retrieved = TopK(entries, obs.question.topic, DefaultK)
       /\ (entries = <<>> => obs.result = NoEvidence)

IsPrefix(s, t) == Len(s) <= Len(t) /\ SubSeq(t, 1, Len(s)) = s

\* C7: every successful insert of n chunks raises the count by exactly n,
\* duplicates included, and no insert removes or changes an existing row.
C7_InsertCumulative ==
  [][op' = "load_documents"
       => /\ ret'.success
               => /\ entries' = entries \o obs'.documents
                  /\ ret'.document_count = Count(obs'.documents)
                  /\ Count(entries') = Count(entries) + ret'.document_count
          /\ IsPrefix(entries, entries')
          /\ Count(entries') >= Count(entries)]_vars

C7_Witness ==
  /\ op = "load_documents" /\ ret.success
  /\ obs.before_of > 0
  /\ Count(entries) = obs.before + Count(obs.documents)

\* C8: an insert that fails surfaces an error and leaves the index as it was.
C8_FailedInsertChangesNothing ==
  [][(op' = "load_documents" /\ obs'.documents # <<>>
        /\ (obs'.embed_fails \/ obs'.persist_fails \/ ~HandleOk("assistant")))
       => (~ret'.success /\ entries' = entries)]_vars

\* C9: the policy is table if any retrieved chunk is a table, whatever the
\* order of the chunks; else compliance if any chunk holds a compliance
\* keyword; else the general policy.
C9_TablePrecedence ==
  (Asked /\ Retrieved # <<>>)
    => obs.prompt_type =
         (IF \E i \in 1 .. Len(Retrieved) : Retrieved[i].content_type = "table" THEN "table"
          ELSE IF \E i \in 1 .. Len(Retrieved) : Retrieved[i].keyword THEN "compliance"
          ELSE "banking")

LabelRank(label) == CASE label = "high" -> 3 [] label = "medium" -> 2 [] OTHER -> 1

\* score lists to compare an observed average with
ScoreLists == {<<a>> : a \in 0 .. 10} \cup {<<a, b>> : a \in {4, 6, 8, 10}, b \in {4, 6, 8, 10}}

\* C10: the confidence label is a function of the average score s of the
\* scored search: high iff s > 0.8, medium iff 0.6 < s <= 0.8, low iff
\* s <= 0.6; a higher average never gets a lower label.
C10_ConfidenceThresholds ==
  (Asked /\ Retrieved # <<>> /\ ~obs.scored.raised /\ obs.scored.scores # <<>>)
    => LET sum == SumSeq(obs.scored.scores)
           n == Len(obs.scored.scores)
       IN /\ n = Len(Retrieved)
          /\ (ret.confidence = "high") <=> (sum > 8 * n)
          /\ (ret.confidence = "medium") <=> (sum > 6 * n /\ sum <= 8 * n)
          /\ (ret.confidence = "low") <=> (sum <= 6 * n)
          /\ \A t \in ScoreLists :
               /\ (SumSeq(t) * n >= sum * Len(t)) => LabelRank(ConfidenceLabel(t)) >= LabelRank(ret.confidence)
               /\ (SumSeq(t) * n <= sum * Len(t)) => LabelRank(ConfidenceLabel(t)) <= LabelRank(ret.confidence)

C10_Witness ==
  /\ Asked /\ Retrieved # <<>> /\ ~obs.scored.raised
  /\ Len(obs.scored.scores) > 1
  /\ SumSeq(obs.scored.scores) = 8 * Len(obs.scored.scores)
  /\ ret.confidence = "medium"

ValidationFailure == [error |-> "Validation failed: <error>"]

\* what _calculate_confidence makes of the scored search that was observed
ObservedConfidence ==
  IF obs.scored.raised \/ obs.scored.scores = <<>> THEN "medium"
  ELSE ConfidenceLabel(obs.scored.scores)

\* C11: when the validation call fails, query still returns the generated
\* answer (the one it returns when validation works), the metadata of the
\* retrieved chunks and the computed confidence; the validation field holds
\* the failure report, and ask_question passes all four on.
C11_ValidationNeverBlocks ==
  (Asked /\ Retrieved # <<>> /\ obs.env.validate_fails)
    => /\ obs.result.answer = (IF obs.env.llm_fails THEN GenerationError ELSE Generated)
       /\ obs.result.answer = query(obs.question, DefaultK, [obs.env EXCEPT !.validate_fails = FALSE]).answer
       /\ Len(obs.result.sources) = Len(Retrieved)
       /\ \A i \in 1 .. Len(Retrieved) :
            /\ obs.result.sources[i].file_path = Retrieved[i].file_path
            /\ obs.result.sources[i].content_type = Retrieved[i].content_type
       /\ obs.result.confidence = ObservedConfidence
       /\ obs.result.confidence \in {"high", "medium", "low"}
       /\ obs.result.validation = ValidationFailure
       /\ ret.success /\ ret.answer = obs.result.answer /\ ret.sources = obs.result.sources
       /\ ret.confidence = obs.result.confidence /\ ret.validation = ValidationFailure

C11_Witness ==
  /\ Asked /\ Retrieved # <<>> /\ obs.env.validate_fails /\ ~obs.env.llm_fails
  /\ ret.answer = Generated
  /\ ret.validation = ValidationFailure
  /\ ret.confidence = "high"

\* the fields an envelope reports a failure in
ErrorFields == {"error", "message", "answer"}

\* C12: every public operation of the facade returns an envelope with a
\* boolean success, whatever fails underneath, and an envelope whose success
\* is false carries a non-empty error text.
C12_EnvelopeAlways ==
  (op # "init")
    => /\ "success" \in DOMAIN ret
       /\ ret.success \in BOOLEAN
       /\ ~ret.success => \E f \in ErrorFields \cap DOMAIN ret : ret[f] # ""

C12_Witness ==
  /\ op = "get_loan_information"
  /\ "sources" \notin DOMAIN obs.result
  /\ ~ret.success
  /\ ret.error = "Error getting loan information: 'sources'"

Structured == op \in {"get_loan_information", "get_compliance_requirements"}

\* C15: the result of structured_query has a data field and a sources
\* field for every question and every index state, also when nothing is
\* retrieved, and the two operations built on it read both.
C15_StructuredResultComplete ==
  Structured
    => /\ {"data", "sources"} \subseteq DOMAIN obs.result
       /\ ret.success

\* C16: when the text the language model returns for a structured query
\* does not parse, the data is the raw text with format_error true; when it
\* parses, the data is the parsed value and carries no marker.
C16_FormatErrorMarker ==
  (Structured /\ "sources" \in DOMAIN obs.result /\ ~obs.env.llm_fails)
    => /\ ret.success
       /\ ret.data = obs.result.data
       /\ IF json_loads(obs.env.output).raised
            THEN obs.result.data = [response |-> obs.env.output, format_error |-> TRUE]
            ELSE /\ obs.result.data = json_loads(obs.env.output).value
                 /\ "format_error" \notin DOMAIN obs.result.data

C16_Witness ==
  /\ Structured /\ ret.success
  /\ obs.env.output = "{'loan_products': []}"
  /\ ret.data.format_error
  /\ ret.data.response = obs.env.output

Human(text) == [type |-> "human", content |-> text]

Ai(text) == [type |-> "ai", content |-> text]

\* C17: a conversational query with a history of n turns appends those n
\* turns in their order and then one turn for the current question and its
\* answer, whatever the outcome of the query; the messages stored before
\* stay as they were, and a plain query leaves the memory alone.
C17_MemoryAppendOnly ==
  [][/\ op' = "conversational_ask"
          => LET h == obs'.conversation_history
                 n == Len(h)
                 m == Len(memory)
             IN /\ Len(memory') = m + 2 * (n + 1)
                /\ SubSeq(memory', 1, m) = memory
                /\ \A i \in 1 .. n :
                     /\ memory'[m + 2 * i - 1] = Human(IF "question" \in DOMAIN h[i] THEN h[i].question ELSE "")
                     /\ memory'[m + 2 * i] = Ai(IF "answer" \in DOMAIN h[i] THEN h[i].answer ELSE "")
                /\ memory'[m + 2 * n + 1] = Human(QuestionText(obs'.question))
                /\ memory'[m + 2 * n + 2] = Ai(ret'.answer)
                /\ ret'.answer \in {Refusal, Generated, QueryError}
     /\ op' = "ask_question" => memory' = memory]_vars

C17_Witness ==
  /\ op = "conversational_ask"
  /\ obs.before # <<>>
  /\ obs.conversation_history = <<Turn1, Turn2>>
  /\ ret.confidence = "error"
  /\ Len(memory) = Len(obs.before) + 6

\* C18: clear_conversation_history empties the memory and leaves the index
\* alone; a reset that succeeds empties the memory too; the statistics read
\* right after either report a conversation history of length 0.
C18_ClearEmptiesHistory ==
  [][/\ op' = "clear_conversation_history"
          => /\ memory' = <<>> /\ ret'.success
             /\ UNCHANGED <<collection_id, next_id, entries, vector_store>>
     /\ (op' = "reset_knowledge_base" /\ ret'.success) => memory' = <<>>
     /\ (/\ op = "clear_conversation_history" \/ (op = "reset_knowledge_base" /\ ret.success)
         /\ op' = "get_knowledge_base_stats" /\ ret'.success)
          => ret'.conversation_history_length = 0]_vars

C18_Witness ==
  /\ op = "clear_conversation_history"
  /\ Len(obs.before) = 2 * MaxTurns
  /\ memory = <<>>
  /\ entries # <<>>

\* C19: a query that retrieves chunks and ends without error returns as
\* sources the metadata of the retrieved chunks, one per chunk and in
\* retrieval order, between 1 and k of them, and the path of each source is
\* the path of a loaded document that produced the chunk.
C19_SourcesAreRetrieved ==
  (Asked /\ ~obs.relevant_docs.raised /\ Retrieved # <<>> /\ obs.result.confidence # "error")
    => /\ Len(obs.result.sources) = Len(Retrieved)
       /\ Len(obs.result.sources) \in 1 .. DefaultK
       /\ ret.sources = obs.result.sources
       /\ \A i \in 1 .. Len(Retrieved) :
            /\ obs.result.sources[i] = [file_path |-> Retrieved[i].file_path,
                                        content_type |-> Retrieved[i].content_type]
            /\ \E j \in 1 .. Len(entries) : entries[j].doc = Retrieved[i]
            /\ PathExists(obs.result.sources[i].file_path)
            /\ \E j \in 1 .. Len(Processed(obs.result.sources[i].file_path)) :
                 Processed(obs.result.sources[i].file_path)[j].doc = Retrieved[i]

C19_Witness ==
  /\ Asked /\ ret.confidence \in {"high", "medium", "low"}
  /\ Len(ret.sources) = DefaultK
  /\ ret.sources[1].file_path # ret.sources[2].file_path
  /\ ret.sources[2].file_path = ret.sources[DefaultK].file_path

QuerySteps == <<"similarity_search", "generate_response", "validate_banking_response",
                "similarity_search_with_score">>

\* the calls made so far are the first calls of the order, each once; a
\* query that retrieved nothing made the search only; a finished query has
\* one outcome, and it is the outcome query computes in one piece
QueryStepsInOrder ==
  (op = "query")
    => /\ IsPrefix(obs.calls, QuerySteps)
       /\ (obs.pc # "done") <=> (obs.outcome = "running")
       /\ (obs.pc = "done")
            => /\ obs.outcome \in {"answered", "NoEvidence", "error"}
               /\ ret = query(obs.question, DefaultK, obs.env)
               /\ (obs.outcome = "answered") <=> (obs.calls = QuerySteps /\ "validation" \in DOMAIN ret)
               /\ (obs.outcome = "NoEvidence") <=> (ret = NoEvidence)
               /\ (obs.outcome = "error") <=> (ret.confidence = "error")
               /\ obs.relevant_docs = <<>> => obs.calls = <<"similarity_search">>

\* C20: a query makes its calls in the order retrieval search, generate,
\* validate, scored search, each at most once, none after the search when
\* nothing was retrieved, and ends in exactly one of the outcomes answered,
\* NoEvidence and error.
C20_QueryStepOrder ==
  /\ []QueryStepsInOrder
  /\ (op = "query") ~> (op = "query" /\ obs.pc = "done")

C20_Witness ==
  /\ op = "query" /\ obs.pc = "done"
  /\ obs.outcome = "answered"
  /\ obs.calls = QuerySteps
  /\ obs.env.llm_fails /\ obs.env.validate_fails /\ obs.env.score_fails

\* C21: when the scored search of the confidence step raises (or returns
\* nothing), the confidence is medium, and the answer, the sources and the
\* validation are those of the same query with a working scored search; the
\* outcome is not an error and ask_question passes it on.
C21_ConfidenceFailureIsMedium ==
  (Asked /\ Retrieved # <<>> /\ (obs.scored.raised \/ obs.scored.scores = <<>>))
    => LET working == query(obs.question, DefaultK, [obs.env EXCEPT !.score_fails = FALSE])
       IN /\ obs.result.confidence = "medium"
          /\ obs.result.answer = working.answer
          /\ obs.result.answer # QueryError
          /\ obs.result.sources = working.sources
          /\ obs.result.sources = SourcesOf(Retrieved)
          /\ obs.result.validation = working.validation
          /\ ret.success /\ ret.confidence = "medium"
          /\ ret.answer = obs.result.answer /\ ret.sources = obs.result.sources

C21_Witness ==
  /\ Asked /\ obs.env.score_fails /\ obs.scored.raised
  /\ ~obs.env.llm_fails /\ ~obs.env.validate_fails
  /\ ret.confidence = "medium"
  /\ ret.answer = Generated
  /\ Len(ret.sources) > 1

\* C22: the chunks of a file carry the chunk indices 0, 1, ..., n-1 in the
\* order they were emitted, text and table chunks alike, whatever the number
\* of pages the loader yielded and whichever of them hold tables.
C22_ChunkIndexContiguous ==
  (op = "load_document")
    => \A i \in 1 .. Len(ret) : ret[i].chunk_id = i - 1

\* what the index holds once the mutation under way has completed
AfterMutation ==
  IF op = "reset_knowledge_base" THEN <<>>
  ELSE WithoutRows(obs.before, obs.source_path, GetAllLimit)

\* C23: a search or an ask that runs while the index is reset or deleted
\* from, or right after, does not fail, and what it retrieves is what the
\* index held before the mutation or what it holds after it.
C23_SearchSeesBeforeOrAfter ==
  (Mutating /\ obs.observed # Unobserved)
    => /\ obs.observed.success
       /\ obs.observed.documents \in {TopK(obs.before, obs.observed.query, obs.observed.k),
                                      TopK(AfterMutation, obs.observed.query, obs.observed.k)}

\* C24: a call that fails on storage leaves the index as it was or as the
\* completed call leaves it, rows of other sources stay, and every later
\* insert and search whose own calls work succeeds, also after a reset that
\* failed between dropping and re-creating the collection.
C24_StorageFailureIsContained ==
  [][/\ (op' \in {"load_documents", "delete_document", "reset_knowledge_base"} /\ ~ret'.success)
          => \/ entries' = entries
             \/ op' = "load_documents" /\ entries' = entries \o obs'.documents
             \/ op' = "delete_document" /\ entries' = WithoutRows(entries, obs'.document_id, GetAllLimit)
             \/ op' = "reset_knowledge_base" /\ entries' = <<>>
     /\ (op' = "delete_document")
          => OtherSources(entries', obs'.document_id) = OtherSources(entries, obs'.document_id)
     /\ (op' = "load_documents" /\ obs'.documents # <<>> /\ ~obs'.embed_fails /\ ~obs'.persist_fails)
          => ret'.success
     /\ (op' = "search_documents" /\ ~obs'.embed_fails)
          => ret'.success]_vars

\* C25: what a conversational query returns is what query returns for the
\* same question, index and capabilities: the same answer, sources,
\* confidence and validation for every history passed along and whatever
\* the memory held before.
C25_HistoryNeverInfluences ==
  (op = "conversational_ask")
    => /\ obs.result = query(obs.question, DefaultK, obs.env)
       /\ \A h \in Histories : conversational_query(obs.question, h, obs.env).result = obs.result
       /\ ret.answer = obs.result.answer
       /\ ret.sources = obs.result.sources
       /\ ret.confidence = obs.result.confidence

C25_Witness ==
  /\ op = "conversational_ask"
  /\ Len(obs.before) > 2
  /\ obs.conversation_history = <<FrontendMessage>>
  /\ ret.answer = Generated
  /\ ret.sources # <<>>

\* load_documents was given a directory
LoadedDirectory == op = "load_documents" /\ "files" \in DOMAIN obs

Failing(files) == SelectSeq(files, LAMBDA f : Supported(f) /\ LoadRaises(f))

Loading(files) == SelectSeq(files, LAMBDA f : Supported(f) /\ ~LoadRaises(f))

RECURSIVE ChunksOf(_)
ChunksOf(files) == IF files = <<>> THEN <<>> ELSE Processed(Head(files)) \o ChunksOf(Tail(files))

\* C26: loading a directory returns the chunks of every supported file that
\* loads, in the order of the files, whichever files before or after them
\* fail; each failing file is reported by a warning and none ends the
\* batch; when the chunks are inserted the load succeeds with their count.
C26_DirectorySkipsFailingFiles ==
  LoadedDirectory
    => /\ ~obs.raised
       /\ obs.documents = ChunksOf(Loading(obs.files))
       /\ obs.warnings = Failing(obs.files)
       /\ (obs.documents # <<>> /\ ~obs.embed_fails /\ ~obs.persist_fails)
            => /\ ret.success
               /\ ret.document_count = Count(obs.documents)
               /\ Count(entries) = obs.before + Count(obs.documents)
       /\ (obs.documents = <<>>) => ret.message = "No documents found or processed"

C26_Witness ==
  /\ LoadedDirectory
  /\ obs.files = <<"rates.txt", "corrupt.pdf", "policy.txt">>
  /\ obs.warnings = <<"corrupt.pdf">>
  /\ ret.success
  /\ ret.document_count = Count(Processed("rates.txt")) + Count(Processed("policy.txt"))
  /\ Count(entries) = ret.document_count

\* C27: loading a file that exists and yields no chunk inserts nothing,
\* leaves the number of rows as it was, and is not reported as a failed load.
C27_EmptyDocumentIsNoError ==
  (op = "load_documents" /\ PathExists(obs.document_path) /\ obs.documents = <<>>)
    => /\ Count(entries) = obs.before
       /\ ret.document_count = 0
       /\ ret.success

\* C28: ask_question leaves the memory and the index as they were,
\* whatever its outcome, and the memory changes only in conversational_ask,
\* clear_conversation_history and reset_knowledge_base.
C28_AskChangesNothing ==
  [][/\ op' = "ask_question"
          => /\ memory' = memory
             /\ entries' = entries
             /\ UNCHANGED <<collection_id, next_id, vector_store>>
     /\ memory' # memory
          => op' \in {"conversational_ask", "clear_conversation_history", "reset_knowledge_base"}]_vars

C28_Witness ==
  /\ op = "ask_question"
  /\ ~obs.question.blank /\ obs.env.llm_fails
  /\ ret.answer = GenerationError
  /\ memory # <<>>
  /\ entries # <<>>

\* C29: ask_question with a question that is empty or only whitespace
\* returns success false, confidence low and no sources, and makes no
\* retrieval search and no call of the language model.
C29_BlankQuestionRejected ==
  (op = "ask_question" /\ obs.question.blank)
    => /\ ~ret.success
       /\ ret.confidence = "low"
       /\ ret.sources = <<>>
       /\ ret.answer = "Please provide a valid question."
       /\ obs.calls = <<>>

C29_Witness ==
  /\ op = "ask_question" /\ obs.question.blank
  /\ ~ret.success
  /\ HandleOk("chain")
  /\ \E i \in 1 .. Len(entries) : entries[i].doc.topic = obs.question.topic

\* C30: load_sample_documents reports success only if the load_documents
\* it made reported success, and ask_question and conversational_ask report
\* success only if the outcome of the chain does not have confidence error.
C30_SuccessReflectsOutcome ==
  /\ (op = "load_sample_documents" /\ obs.exists /\ ret.success) => obs.result.success
  /\ (op \in {"ask_question", "conversational_ask"} /\ ret.success) => ret.confidence # "error"

Chunked == op = "process_documents"

RECURSIVE Concat(_)
Concat(chunks) == IF chunks = <<>> THEN <<>> ELSE Head(chunks).page_content \o Concat(Tail(chunks))

\* the non-whitespace characters of a text, runs of one character merged
RECURSIVE Merged(_)
Merged(text) ==
  IF Len(text) < 2 THEN text
  ELSE IF text[1].c = text[2].c
    THEN Merged(<<Token(text[1].c, text[1].n + text[2].n)>> \o SubSeq(text, 3, Len(text)))
    ELSE <<text[1]>> \o Merged(Tail(text))

NonWhitespace(text) == Merged(SelectSeq(text, LAMBDA t : t.c # " "))

\* C13: for every page and every list of table regions, overlapping and
\* nested ones included, the chunks carry the indices 0, 1, 2, ... and
\* their contents, joined in that order, are the non-whitespace content of
\* the page, each part once and in its place (for pages that fit one
\* chunk, so that no text chunks overlap).
C13_ChunksReproduceText ==
  (Chunked /\ CharLen(obs.content) <= CHUNK_SIZE)
    => /\ \A i \in 1 .. Len(ret) : ret[i].chunk_id = i - 1
       /\ NonWhitespace(Concat(ret)) = NonWhitespace(obs.content)

TableChunks == SelectSeq(ret, LAMBDA chunk : chunk.content_type = "table")

\* C14: the chunks of type table are, in order of start offset, the texts
\* of the detected regions, one chunk per region and whole, whatever the
\* length of the region; a page without regions gives no table chunk.
C14_TablesAtomic ==
  Chunked
    => /\ Len(TableChunks) = Len(obs.tables)
       /\ \A i \in 1 .. Len(TableChunks) :
            LET table == SortTables(obs.tables)[i]
            IN /\ TableChunks[i].page_content = SubSeq(obs.content, table.start_pos + 1, table.end_pos)
               /\ CharLen(TableChunks[i].page_content) = CharLen(table.text)

C14_Witness ==
  /\ Chunked
  /\ Len(TableChunks) = 1
  /\ CharLen(TableChunks[1].page_content) > CHUNK_SIZE + 1
  /\ \E i \in 1 .. Len(ret) : ret[i].content_type = "text" /\ CharLen(ret[i].page_content) = CHUNK_SIZE

====
